---- MODULE Spec2Model ----
(***************************************************************************)
(* Model of the chaos-frontend-client web client: the Unity<->HTML message *)
(* bridge (UnityBridge, ui-manager.ts) and the authentication client       *)
(* (ApiService).                                                           *)
(*                                                                         *)
(* JavaScript is single threaded: one step of the model is one macrotask   *)
(* (a call from the page, a timer, an HTTP response, a synchronous call of *)
(* the host into the page) run to the point where the code next waits for *)
(* the outside world.                                                      *)
(***************************************************************************)
EXTENDS Integers, Sequences, FiniteSets, TLC

(***************************************************************************)
(* Bounds of the model.                                                    *)
(***************************************************************************)
MaxSend == 3       \* calls of sendToUnity() in one behaviour
MaxSubs == 3       \* on() calls in one behaviour
MaxInit == 2       \* calls of UnityBridge.init() in one behaviour
MaxTasks == 2      \* calls of ApiService methods in one behaviour
MaxDepth == 3      \* requests one call has waiting on one another (a request, refreshes)
MaxPairs == 3      \* token pairs the server issues in one behaviour

(***************************************************************************)
(* Sequence helpers: Array.prototype.indexOf and splice(index, 1).         *)
(***************************************************************************)
Range(s) == {s[i] : i \in 1..Len(s)}

\* indexOf: the first position holding x, 0 when there is none (-1 in JS)
IndexOf(s, x) ==
    IF x \in Range(s) THEN CHOOSE i \in 1..Len(s) : s[i] = x /\ \A j \in 1..(i-1) : s[j] # x
    ELSE 0

\* splice(i, 1)
RemoveAt(s, i) == SubSeq(s, 1, i-1) \o SubSeq(s, i+1, Len(s))

Count(s, x) == Cardinality({i \in 1..Len(s) : s[i] = x})

(***************************************************************************)
(* UnityBridge: vocabulary.                                                *)
(***************************************************************************)
\* the entry points of window.UnityToHTML and the event each one emits
EntryPoints == {"onPlayerStatsUpdated", "onCultivationProgress", "onCombatStarted",
                "onCombatEnded", "onInventoryUpdated", "onGameStateChanged", "onError"}

EventOf(ep) ==
    CASE ep = "onPlayerStatsUpdated"  -> "PlayerStatsUpdated"
      [] ep = "onCultivationProgress" -> "CultivationProgress"
      [] ep = "onCombatStarted"       -> "CombatStarted"
      [] ep = "onCombatEnded"         -> "CombatEnded"
      [] ep = "onInventoryUpdated"    -> "InventoryUpdated"
      [] ep = "onGameStateChanged"    -> "GameStateChanged"
      [] ep = "onError"               -> "Error"

\* the events the page subscribes to in the model, and the entry points the host calls
SubEvents == {"PlayerStatsUpdated", "Error"}
CalledEntryPoints == {"onPlayerStatsUpdated", "onError", "onCombatStarted"}

\* the callbacks handed to on(): each name is one function object, and says
\* what the function does when it is called
\*   hPlain  returns               hThrow  throws
\*   hSend   calls sendToUnity()   hOff    calls off() for itself
Handlers == {"hPlain", "hThrow", "hSend", "hOff"}

\* the methods the page sends
Methods == {"UIReady", "SaveGame"}

VARIABLES
    \* UnityBridge fields
    unityInstance,    \* "null" or "inst"
    isReady,
    eventListeners,   \* Map<string, EventHandler[]>: a function on the keys present
    messageQueue,
    \* the page around the bridge
    hostAvailable,    \* window.UnityLoader is defined and #unity-canvas exists
    commSetup,        \* window.UnityToHTML has been assigned
    initPc,           \* where each call of init() stands
    \* observations
    hostLog,          \* the SendMessage calls the host received, in order
    instantiations,   \* calls of UnityLoader.instantiate
    sendCount,        \* calls of sendToUnity() by the page
    onCount,          \* calls of on() by the page
    enqueued,         \* the messages sendToUnity() buffered while not ready
    lastDispatch,     \* what the inbound call of the host that just ran did
    sendFailed,       \* a SendMessage call of the step that just ran threw
    offCalled,        \* <<event, handler>>: off() was called since the last on()
    registrations     \* <<event, handler>>: on() calls not yet undone by an off()

bridgeVars == <<unityInstance, isReady, eventListeners, messageQueue, hostAvailable,
                commSetup, initPc, hostLog, instantiations, sendCount, onCount, enqueued,
                lastDispatch, sendFailed, offCalled, registrations>>

VARIABLES
    \* ApiService fields; a token is the number of the pair it belongs to, 0 is null
    accessToken,
    refreshToken,
    \* localStorage: 'chaos-world-access-token' and 'chaos-world-refresh-token'
    storeAccess,
    storeRefresh,
    storeFaulty,      \* localStorage calls may throw
    \* the server and the calls in progress
    nextPair,         \* token pairs issued so far
    tasks,            \* the calls of ApiService methods: see NewTask
    \* GameUI, as far as ApiService reaches it through window.gameUI
    uiPresent,        \* window.gameUI is set
    uiBridge,         \* GameUI.unityBridge is set
    uiAuthenticated,
    uiCurrentUser,
    uiView,           \* what the page shows: "initial", "welcome" or "game"
    uiManager,        \* GameUI.uiManager is set
    uiNotifications   \* the notifications UIManager has displayed

apiVars == <<accessToken, refreshToken, storeAccess, storeRefresh, storeFaulty, nextPair,
             tasks, uiPresent, uiBridge, uiAuthenticated, uiCurrentUser, uiView>>

gameVars == <<uiManager, uiNotifications>>

vars == <<bridgeVars, apiVars, gameVars>>

(***************************************************************************)
(* UnityBridge: the synchronous code, as functions of the bridge's data.   *)
(* b is a record of the data a synchronous run reads and writes:           *)
(*   ls   eventListeners      q    messageQueue     log  hostLog           *)
(*   cnt  sendCount           enq  enqueued         off  offCalled         *)
(*   reg  registrations       inv  callbacks called by the running emit    *)
(*   caught  exceptions the running emit caught                            *)
(*   thrown  an exception is propagating                                   *)
(*   failed  a SendMessage call threw and sendToUnity() caught it          *)
(***************************************************************************)
Message(method, n) == [method |-> method, n |-> n]

\* mutant: the test is `!this.unityInstance` alone
SendBranch_IgnoresReady(b, ready, inst, msg, throws) ==
    IF inst = "null"
    THEN [b EXCEPT !.q = Append(@, msg)]
    ELSE [b EXCEPT !.log = Append(@, msg), !.failed = @ \/ throws]

\* mutant: SendMessage is called outside any try
SendBranch_NoCatch(b, ready, inst, msg, throws) ==
    IF ~ready \/ inst = "null"
    THEN [b EXCEPT !.q = Append(@, msg)]
    ELSE [b EXCEPT !.log = Append(@, msg), !.thrown = @ \/ throws]

\* the two branches of sendToUnity() for a message msg
SendBranch(b, ready, inst, msg, throws) ==
    IF ~ready \/ inst = "null"
    THEN [b EXCEPT !.q = Append(@, msg)]
    ELSE \* SendMessage is called; what it throws is caught and logged
         [b EXCEPT !.log = Append(@, msg), !.failed = @ \/ throws]

\* sendToUnity(methodName, data) called by the page or by a callback
SendToUnity(b, ready, inst, method, throws) ==
    LET msg == Message(method, b.cnt + 1)
        b1  == SendBranch(b, ready, inst, msg, throws)
    IN  [b1 EXCEPT !.cnt = @ + 1,
                   !.enq = IF ~ready THEN Append(@, msg) ELSE @]

\* mutant: pop() in place of shift()
ProcessOne_Pop(b, ready, inst, throws) ==
    SendBranch([b EXCEPT !.q = SubSeq(@, 1, Len(@) - 1)], ready, inst, b.q[Len(b.q)], throws)

\* one turn of the loop of processMessageQueue(): shift(), then sendToUnity()
ProcessOne(b, ready, inst, throws) ==
    SendBranch([b EXCEPT !.q = Tail(@)], ready, inst, Head(b.q), throws)

\* on(event, callback)
On(b, event, callback) ==
    [b EXCEPT !.ls = IF event \in DOMAIN @
                     THEN [@ EXCEPT ![event] = Append(@, callback)]
                     ELSE @ @@ (event :> <<callback>>),
              !.off = @ \ {<<event, callback>>},
              !.reg = [@ EXCEPT ![<<event, callback>>] = @ + 1]]

\* mutant: `index > 0` in place of `index > -1`
Off_SkipsFirst(b, event, callback) ==
    LET index == IF event \in DOMAIN b.ls THEN IndexOf(b.ls[event], callback) ELSE 0
        wasOn == b.reg[<<event, callback>>] > 0 \/ <<event, callback>> \in b.off
    IN  [b EXCEPT !.ls = IF index > 1 THEN [@ EXCEPT ![event] = RemoveAt(@, index)] ELSE @,
                  !.off = IF wasOn THEN @ \cup {<<event, callback>>} ELSE @,
                  !.reg = [@ EXCEPT ![<<event, callback>>] = IF @ > 0 THEN @ - 1 ELSE 0]]

\* off(event, callback)
Off(b, event, callback) ==
    LET index == IF event \in DOMAIN b.ls THEN IndexOf(b.ls[event], callback) ELSE 0
        wasOn == b.reg[<<event, callback>>] > 0 \/ <<event, callback>> \in b.off
    IN  [b EXCEPT !.ls = IF index > 0 THEN [@ EXCEPT ![event] = RemoveAt(@, index)] ELSE @,
                  !.off = IF wasOn THEN @ \cup {<<event, callback>>} ELSE @,
                  !.reg = [@ EXCEPT ![<<event, callback>>] = IF @ > 0 THEN @ - 1 ELSE 0]]

\* what calling the callback h does
Callback(h, b, event, ready, inst, throws) ==
    CASE h = "hPlain" -> b
      [] h = "hThrow" -> [b EXCEPT !.thrown = TRUE]
      [] h = "hSend"  -> SendToUnity(b, ready, inst, "StartCultivation", throws)
      [] h = "hOff"   -> Off(b, event, h)

\* mutant: the callback is called outside any try
InvokeListener_NoCatch(h, b, event, ready, inst, throws) ==
    Callback(h, [b EXCEPT !.inv = Append(@, h)], event, ready, inst, throws)

\* the body of emit()'s forEach: try { callback(data) } catch { console.error }
InvokeListener(h, b, event, ready, inst, throws) ==
    LET r == Callback(h, [b EXCEPT !.inv = Append(@, h)], event, ready, inst, throws)
    IN  IF r.thrown THEN [r EXCEPT !.thrown = FALSE, !.caught = @ + 1] ELSE r

\* Array.prototype.forEach over the live array: the indices below the length
\* at the start are visited, those no longer present are skipped
RECURSIVE EmitLoop(_, _, _, _, _, _, _)
EmitLoop(b, event, k, len, ready, inst, throws) ==
    IF k > len THEN b
    ELSE IF k > Len(b.ls[event]) THEN EmitLoop(b, event, k + 1, len, ready, inst, throws)
    ELSE LET b1 == InvokeListener(b.ls[event][k], b, event, ready, inst, throws)
         IN  IF b1.thrown THEN b1
             ELSE EmitLoop(b1, event, k + 1, len, ready, inst, throws)

\* emit(event, data)
Emit(b, event, ready, inst, throws) ==
    IF event \in DOMAIN b.ls
    THEN EmitLoop(b, event, 1, Len(b.ls[event]), ready, inst, throws)
    ELSE b

(***************************************************************************)
(* UnityBridge: the steps.                                                 *)
(***************************************************************************)
\* the bridge's data as a record, and back
Bridge ==
    [ls |-> eventListeners, q |-> messageQueue, log |-> hostLog, cnt |-> sendCount,
     enq |-> enqueued, off |-> offCalled, reg |-> registrations,
     inv |-> <<>>, caught |-> 0, thrown |-> FALSE, failed |-> FALSE]

Store(b) ==
    /\ eventListeners' = b.ls
    /\ messageQueue' = b.q
    /\ hostLog' = b.log
    /\ sendCount' = b.cnt
    /\ enqueued' = b.enq
    /\ offCalled' = b.off
    /\ registrations' = b.reg
    /\ sendFailed' = b.failed

NoDispatch ==
    [event |-> "none", start |-> <<>>, invoked |-> <<>>, caught |-> 0, escaped |-> FALSE,
     parseFailed |-> FALSE, offStart |-> {}, regStart |-> [h \in Handlers |-> 0],
     pre |-> <<>>, post |-> <<>>]

\* a processMessageQueue() loop is running: the page does nothing else
Draining == \E i \in 1..MaxInit : initPc[i] = "draining"

\* the message of the catch of GameUI.init()
InitFailedMessage == "Failed to initialize game UI. Please refresh the page."

\* GameUI.showError(message): this.uiManager?.showError(message)
GameUIShowError(shown, manager, message) ==
    IF manager THEN Append(shown, message) ELSE shown

\* GameUI.init() after `await this.unityBridge.init()` has resolved: the
\* components are made, setupEventListeners() subscribes to the bridge and
\* UIReady is sent
GameUIInitGoesOn(b, inst, throws) ==
    SendToUnity(On(b, "PlayerStatsUpdated", "hPlain"), TRUE, inst, "UIReady", throws)

\* the bridge after init() number i has got as far as b: init() number 1 is
\* GameUI's where GameUI has made the bridge, and GameUI.init() goes on once
\* the buffer is drained
AfterInit(i, b, inst, throws) ==
    IF i = 1 /\ uiBridge /\ b.q = <<>> THEN GameUIInitGoesOn(b, inst, throws) ELSE b

\* what GameUI.init() does to GameUI in a step of init() number i: new UIManager()
\* once the bridge's init() has resolved, the catch and showError() once it
\* has rejected
GameUIInitSettles(i) ==
    LET mine     == i = 1 /\ uiBridge
        resolved == mine /\ initPc[i] # "resolved" /\ initPc'[i] = "resolved"
        rejected == mine /\ initPc[i] \in {"none", "polling"}
                         /\ initPc'[i] \in {"timedOut", "loadError"}
    IN  /\ uiManager' = (uiManager \/ resolved)
        /\ uiNotifications' = IF rejected
                              THEN GameUIShowError(uiNotifications, uiManager, InitFailedMessage)
                              ELSE uiNotifications

\* mutant: `this.isReady = !this.isReady`
FinishInit_Toggle(i, inst, throws) ==
    LET b == IF messageQueue = <<>> THEN Bridge ELSE ProcessOne(Bridge, ~isReady, inst, throws)
    IN  /\ commSetup' = TRUE
        /\ isReady' = ~isReady
        /\ Store(AfterInit(i, b, inst, throws))
        /\ initPc' = [initPc EXCEPT ![i] = IF b.q = <<>> THEN "resolved" ELSE "draining"]

\* the rest of init() once waitForUnity() has resolved: setupUnityCommunication(),
\* isReady = true, and processMessageQueue() up to its first SendMessage
FinishInit(i, inst, throws) ==
    LET b == IF messageQueue = <<>> THEN Bridge ELSE ProcessOne(Bridge, TRUE, inst, throws)
    IN  /\ commSetup' = TRUE
        /\ isReady' = TRUE
        /\ Store(AfterInit(i, b, inst, throws))
        /\ initPc' = [initPc EXCEPT ![i] = IF b.q = <<>> THEN "resolved" ELSE "draining"]

\* loadUnity(): UnityLoader.instantiate returns an instance, returns nothing, or throws
LoadOutcomes == {"inst", "null", "throws"}

\* init() is called: waitForUnity() arms the timeout and runs checkUnity() once,
\* inside the promise executor
InitCall(i) ==
    /\ initPc[i] = "none"
    /\ \A j \in 1..(i-1) : initPc[j] # "none"
    /\ ~Draining
    /\ IF ~hostAvailable
       THEN /\ initPc' = [initPc EXCEPT ![i] = "polling"]
            /\ Store(Bridge)
            /\ UNCHANGED <<unityInstance, isReady, commSetup, instantiations>>
       ELSE \E o \in LoadOutcomes, throws \in BOOLEAN :
              /\ instantiations' = instantiations + 1
              /\ IF o = "throws"
                 THEN \* the executor throws: the promise rejects with the load error
                      /\ initPc' = [initPc EXCEPT ![i] = "loadError"]
                      /\ Store(Bridge)
                      /\ UNCHANGED <<unityInstance, isReady, commSetup>>
                 ELSE /\ unityInstance' = o
                      /\ FinishInit(i, o, throws)
    /\ lastDispatch' = NoDispatch
    /\ UNCHANGED <<hostAvailable, onCount>>
    /\ UNCHANGED apiVars
    /\ GameUIInitSettles(i)

\* checkUnity() run by its 100 ms timer and finding the host; the timer goes on
\* after the timeout has rejected the promise ("timedOut")
Poll(i) ==
    /\ initPc[i] \in {"polling", "timedOut"}
    /\ hostAvailable
    /\ ~Draining
    /\ \E o \in LoadOutcomes, throws \in BOOLEAN :
         /\ instantiations' = instantiations + 1
         /\ IF o = "throws"
            THEN \* thrown out of the timer callback, after clearTimeout(): the
                 \* promise of a pending init() is never settled
                 /\ initPc' = [initPc EXCEPT ![i] = IF @ = "polling" THEN "hung" ELSE "timedOutStopped"]
                 /\ Store(Bridge)
                 /\ UNCHANGED <<unityInstance, isReady, commSetup>>
            ELSE /\ unityInstance' = o
                 /\ IF initPc[i] = "polling"
                    THEN FinishInit(i, o, throws)
                    ELSE /\ initPc' = [initPc EXCEPT ![i] = "timedOutStopped"]
                         /\ Store(Bridge)
                         /\ UNCHANGED <<isReady, commSetup>>
    /\ lastDispatch' = NoDispatch
    /\ UNCHANGED <<hostAvailable, onCount>>
    /\ UNCHANGED apiVars
    /\ GameUIInitSettles(i)

\* mutant: the 30 s timer does not reject
Timeout_NoReject(i) ==
    /\ initPc[i] = "polling"
    /\ ~Draining
    /\ UNCHANGED vars

\* the 30 s timer of waitForUnity() fires: init() rejects with the timeout error
Timeout(i) ==
    /\ initPc[i] = "polling"
    /\ ~Draining
    /\ initPc' = [initPc EXCEPT ![i] = "timedOut"]
    /\ Store(Bridge)
    /\ lastDispatch' = NoDispatch
    /\ UNCHANGED <<unityInstance, isReady, hostAvailable, commSetup, instantiations, onCount>>
    /\ UNCHANGED apiVars
    /\ GameUIInitSettles(i)

\* the loader script and the canvas element appear in the page
HostAppears ==
    /\ ~hostAvailable
    /\ ~Draining
    /\ hostAvailable' = TRUE
    /\ Store(Bridge)
    /\ lastDispatch' = NoDispatch
    /\ UNCHANGED <<unityInstance, isReady, commSetup, initPc, instantiations, onCount>>
    /\ UNCHANGED <<apiVars, gameVars>>

\* the next turn of the loop of processMessageQueue()
DrainStep(i) ==
    /\ initPc[i] = "draining"
    /\ \E throws \in BOOLEAN :
         LET b == ProcessOne(Bridge, isReady, unityInstance, throws)
         IN  /\ Store(AfterInit(i, b, unityInstance, throws))
             /\ initPc' = [initPc EXCEPT ![i] = IF b.q = <<>> THEN "resolved" ELSE "draining"]
    /\ lastDispatch' = NoDispatch
    /\ UNCHANGED <<unityInstance, isReady, hostAvailable, commSetup, instantiations, onCount>>
    /\ UNCHANGED apiVars
    /\ GameUIInitSettles(i)

\* the page calls sendToUnity()
PageSend(method) ==
    /\ ~Draining
    /\ sendCount < MaxSend
    /\ \E throws \in BOOLEAN :
         Store(SendToUnity(Bridge, isReady, unityInstance, method, throws))
    /\ lastDispatch' = NoDispatch
    /\ UNCHANGED <<unityInstance, isReady, hostAvailable, commSetup, initPc, instantiations, onCount>>
    /\ UNCHANGED <<apiVars, gameVars>>

\* the page calls on()
PageOn(event, h) ==
    /\ ~Draining
    /\ onCount < MaxSubs
    /\ Store(On(Bridge, event, h))
    /\ onCount' = onCount + 1
    /\ lastDispatch' = NoDispatch
    /\ UNCHANGED <<unityInstance, isReady, hostAvailable, commSetup, initPc, instantiations>>
    /\ UNCHANGED <<apiVars, gameVars>>

\* the page calls off()
PageOff(event, h) ==
    /\ ~Draining
    /\ Store(Off(Bridge, event, h))
    /\ lastDispatch' = NoDispatch
    /\ UNCHANGED <<unityInstance, isReady, hostAvailable, commSetup, initPc, instantiations, onCount>>
    /\ UNCHANGED <<apiVars, gameVars>>

\* the sendToUnity() calls the callbacks of the event make when it is emitted
SendsOf(event) ==
    IF event \in DOMAIN eventListeners THEN Count(eventListeners[event], "hSend") ELSE 0

\* the host calls window.UnityToHTML[ep](data); it can do so from inside
\* SendMessage, between two turns of the loop of processMessageQueue()
Dispatch(ep, validJson) ==
    LET event == EventOf(ep)
        pre   == <<isReady, messageQueue, eventListeners>>
        start == IF event \in DOMAIN eventListeners THEN eventListeners[event] ELSE <<>>
        rec   == [NoDispatch EXCEPT
                    !.event = event, !.start = start, !.pre = pre,
                    !.offStart = {h \in Handlers : <<event, h>> \in offCalled},
                    !.regStart = [h \in Handlers |->
                                    IF event \in SubEvents THEN registrations[<<event, h>>] ELSE 0]]
    IN
    /\ commSetup
    /\ Draining => unityInstance = "inst"
    /\ sendCount + SendsOf(event) <= MaxSend
    /\ IF ep # "onError" /\ ~validJson
       THEN \* JSON.parse(data) throws before emit() is reached
            /\ lastDispatch' = [rec EXCEPT !.parseFailed = TRUE, !.escaped = TRUE, !.post = pre]
            /\ Store(Bridge)
       ELSE \E throws \in BOOLEAN :
              LET b == Emit(Bridge, event, isReady, unityInstance, throws)
              IN  /\ Store(b)
                  /\ lastDispatch' = [rec EXCEPT !.invoked = b.inv, !.caught = b.caught,
                                                 !.escaped = b.thrown,
                                                 !.post = <<isReady, b.q, b.ls>>]
    /\ UNCHANGED <<unityInstance, isReady, hostAvailable, commSetup, initPc, instantiations, onCount>>
    /\ UNCHANGED <<apiVars, gameVars>>

(***************************************************************************)
(* ApiService: the synchronous code, as functions of the data it touches.  *)
(* s is a record of that data:                                             *)
(*   acc, ref    accessToken, refreshToken                                 *)
(*   sAcc, sRef  the two localStorage items                                *)
(*   uiAuth, uiUser   GameUI.isAuthenticated, GameUI.currentUser           *)
(*   uiView      the view GameUI shows                                     *)
(*   br          the bridge's data (see Bridge)                            *)
(* fault says which localStorage call of a method throws: "none", "first"  *)
(* or "second".                                                            *)
(***************************************************************************)
Users == {"alice", "bob"}

\* loadTokens()
LoadTokens(s, fault) ==
    CASE fault = "none"   -> [s EXCEPT !.acc = s.sAcc, !.ref = s.sRef]
      [] fault = "first"  -> s
      [] fault = "second" -> [s EXCEPT !.acc = s.sAcc]

\* mutant: the fields are set, localStorage is not written
SaveTokens_MemoryOnly(s, a, r, fault) ==
    [s EXCEPT !.acc = a, !.ref = r]

\* mutant: the refresh token is not saved
SaveTokens_AccessOnly(s, a, r, fault) ==
    IF fault = "none" THEN [s EXCEPT !.sAcc = a, !.acc = a] ELSE s

\* saveTokens(accessToken, refreshToken)
SaveTokens(s, a, r, fault) ==
    CASE fault = "none"   -> [s EXCEPT !.sAcc = a, !.sRef = r, !.acc = a, !.ref = r]
      [] fault = "first"  -> s
      [] fault = "second" -> [s EXCEPT !.sAcc = a]

\* mutant: the refresh token is not cleared
ClearTokens_AccessOnly(s, fault) ==
    IF fault = "none" THEN [s EXCEPT !.sAcc = 0, !.acc = 0] ELSE s

\* clearTokens()
ClearTokens(s, fault) ==
    CASE fault = "none"   -> [s EXCEPT !.sAcc = 0, !.sRef = 0, !.acc = 0, !.ref = 0]
      [] fault = "first"  -> s
      [] fault = "second" -> [s EXCEPT !.sAcc = 0]

\* isAuthenticated()
IsAuthenticated(s) == s.acc # 0

\* an axios error: with a response (and its data), with a request only, or a
\* plain Error; msg is the text, url the request whose response supplied it
HttpError(url, status) ==
    [type |-> "response", status |-> status, url |-> url, msg |-> "server message"]
NoResponse(url) ==
    [type |-> "request", status |-> 0, url |-> url, msg |-> "Network Error"]
PlainError(msg) ==
    [type |-> "error", status |-> 0, url |-> "", msg |-> msg]

\* handleError(error)
HandleError(e) ==
    IF e.type = "response" THEN [PlainError(e.msg) EXCEPT !.url = e.url]
    ELSE IF e.type = "request" THEN PlainError("Network error: Unable to connect to server")
    ELSE [PlainError(e.msg) EXCEPT !.url = e.url]

\* convertToUserProfile(backendUser)
ConvertToUserProfile(backendUser) ==
    [username |-> backendUser.username, displayName |-> backendUser.display_name, level |-> 1]

\* GameUI.onUserLogin(userProfile), then initializeGameForUser(user)
GameUIOnUserLogin(s, user, throws) ==
    [s EXCEPT !.uiUser = user,
              !.uiAuth = TRUE,
              !.uiView = "game",
              !.br = IF uiBridge
                     THEN SendToUnity(@, isReady, unityInstance, "UserLogin", throws)
                     ELSE @]

\* the finally block of GameUI.logout(), once `await apiService.logout()` has settled
GameUILogoutFinally(s, throws) ==
    [s EXCEPT !.uiAuth = FALSE,
              !.uiUser = "none",
              !.uiView = "welcome",
              !.br = IF uiBridge
                     THEN SendToUnity(@, isReady, unityInstance, "UserLogout", throws)
                     ELSE @]

\* GameUI.logout() called while ApiService holds no access token: apiService.logout()
\* sends nothing and clears, then the finally block runs
GameUILogout(s, fault, throws) ==
    LET s1 == ClearTokens(s, fault)
    IN  [s1 EXCEPT !.uiAuth = FALSE,
                   !.uiUser = "none",
                   !.uiView = "welcome",
                   !.br = IF uiBridge
                          THEN SendToUnity(@, isReady, unityInstance, "UserLogout", throws)
                          ELSE @]

\* mutant: redirectToLogin() does nothing
RedirectToLogin_Nothing(s, fault, throws) == s

\* redirectToLogin()
RedirectToLogin(s, fault, throws) ==
    IF uiPresent THEN GameUILogout(s, fault, throws) ELSE s

(***************************************************************************)
(* A call of an ApiService method is a task. Its stack holds the requests  *)
(* it has in progress: the last one is with the server, each one below is  *)
(* in the response interceptor, waiting for the refresh above it. A frame  *)
(* is the request's config: url, _retry, the Authorization header it was   *)
(* last sent with (0 none, -1 "Bearer null"), the refresh_token of its     *)
(* body, and how many times it has been sent.                              *)
(***************************************************************************)
Ops == {"login", "register", "me", "logout", "logoutAll", "health"}

UrlOf(op) ==
    CASE op = "login"     -> "/auth/login"
      [] op = "register"  -> "/auth/register"
      [] op = "me"        -> "/auth/me"
      [] op = "logout"    -> "/auth/logout"
      [] op = "logoutAll" -> "/auth/logout-all"
      [] op = "health"    -> "/health"

NoSnap == [acc |-> -2, ref |-> -2, sAcc |-> -2, sRef |-> -2]
Snap(s) == [acc |-> s.acc, ref |-> s.ref, sAcc |-> s.sAcc, sRef |-> s.sRef]

NoData == [success |-> FALSE, tokens |-> 0, user |-> "none"]

NewTask ==
    [op |-> "none", state |-> "idle", stack |-> <<>>,
     by |-> "page",                 \* who called: the page, GameUI.init() ("gameInit")
                                    \* or GameUI.logout() ("gameLogout")
     value |-> NoData,              \* what the call resolved with
     error |-> PlainError(""),      \* what the call rejected with
     \* observations
     first401 |-> FALSE,            \* the request was answered 401 while a refresh token was held
     firstError |-> PlainError(""), \* the error of that answer
     refreshes |-> 0,               \* POST /auth/refresh sent for the call
     refreshFailed |-> FALSE,       \* a refresh attempt for the call failed
     granted |-> 0,                 \* the pair the last successful refresh returned
     replays |-> 0,                 \* replays of the call's request
     replayAuth |-> 0,              \* the bearer token of the replay
     replaySnap |-> NoSnap,         \* the tokens when the replay was sent
     replayRefreshes |-> 0,         \* refreshes when the replay was sent
     replayAnswer |-> "none",       \* the server's answer to the replay
     replayData |-> NoData,
     lastAnswer |-> "none",         \* the server's last answer to the call's request
     settleSnap |-> NoSnap,         \* the tokens when the call settled
     serverData |-> NoData]         \* the body of the last 2xx answer to the call's request

Frame(url, s) ==
    [url |-> url, retry |-> FALSE, auth |-> s.acc,
     body |-> IF url = "/auth/refresh" THEN s.ref ELSE 0, sent |-> 1]

\* mutant: the replay keeps the Authorization header of the first attempt
Resend_StaleHeader(f, s) ==
    [f EXCEPT !.sent = @ + 1]

\* the request interceptor, for a request sent again: line 113 has set the header
\* to `Bearer ${accessToken}`, the interceptor sets it when a token is held
Resend(f, s) ==
    [f EXCEPT !.auth = IF s.acc # 0 THEN s.acc ELSE -1, !.sent = @ + 1]

Top(stack) == stack[Len(stack)]
Pop(stack) == SubSeq(stack, 1, Len(stack) - 1)

\* the method's promise settles
Resolve(tk, s, data) ==
    [tk EXCEPT !.state = "resolved", !.value = data, !.stack = <<>>, !.settleSnap = Snap(s)]
Reject(tk, s, e) ==
    [tk EXCEPT !.state = "rejected", !.error = e, !.stack = <<>>, !.settleSnap = Snap(s)]

(***************************************************************************)
(* ApiService: the methods and the response interceptor. Each operator     *)
(* returns <<s, tk>>: the data and the task after the code has run as far  *)
(* as it can without the server.                                           *)
(***************************************************************************)
\* the method's code after `await this.api...` has returned a response
AfterAwait(s, tk, data, fault) ==
    CASE tk.op \in {"login", "register"} ->
           LET s1 == IF data.success /\ data.tokens # 0
                     THEN SaveTokens(s, data.tokens, data.tokens, fault)
                     ELSE s
           IN  <<s1, Resolve(tk, s1, data)>>
      [] tk.op = "me" -> <<s, Resolve(tk, s, data)>>
      [] tk.op \in {"logout", "logoutAll"} ->
           LET s1 == ClearTokens(s, fault) IN <<s1, Resolve(tk, s1, NoData)>>
      [] tk.op = "health" -> <<s, Resolve(tk, s, [NoData EXCEPT !.success = TRUE])>>

\* mutant: logout() and logoutAll() clear the tokens in the try, not in a finally
OpCatch_NoFinally(s, tk, e, fault) ==
    CASE tk.op \in {"login", "register", "me"} -> <<s, Reject(tk, s, HandleError(e))>>
      [] tk.op \in {"logout", "logoutAll"} -> <<s, Resolve(tk, s, NoData)>>
      [] tk.op = "health" -> <<s, Resolve(tk, s, NoData)>>

\* the method's catch (and finally) once `await this.api...` has thrown e
OpCatch(s, tk, e, fault) ==
    CASE tk.op \in {"login", "register", "me"} -> <<s, Reject(tk, s, HandleError(e))>>
      [] tk.op \in {"logout", "logoutAll"} ->
           LET s1 == ClearTokens(s, fault) IN <<s1, Resolve(tk, s1, NoData)>>
      [] tk.op = "health" -> <<s, Resolve(tk, s, NoData)>>

RECURSIVE RequestFails(_, _, _, _, _)
RECURSIVE InterceptorCatch(_, _, _, _, _)

\* the promise of the request on top of the stack rejects with e: the method's
\* catch for the method's own request, and for a refresh the catch of
\* refreshAccessToken(), which throws into the interceptor of the request below
RequestFails(s, tk, e, fault, throws) ==
    IF Len(tk.stack) = 1
    THEN OpCatch(s, tk, e, fault)
    ELSE InterceptorCatch(ClearTokens(s, fault), [tk EXCEPT !.stack = Pop(@)],
                          HandleError(e), fault, throws)

\* the interceptor's catch (refreshError) for the request on top of the stack:
\* clearTokens(), redirectToLogin(), return Promise.reject(refreshError)
InterceptorCatch(s, tk, e, fault, throws) ==
    RequestFails(RedirectToLogin(ClearTokens(s, fault), fault, throws),
                 [tk EXCEPT !.refreshFailed = TRUE], e, fault, throws)

\* mutant: `originalRequest._retry = true` is missing
ResponseError_NoRetryFlag(s, tk, e, fault, throws) ==
    LET n == Len(tk.stack)
        f == tk.stack[n]
    IN  IF e.status = 401 /\ ~f.retry
        THEN LET tk1 == [tk EXCEPT !.first401 = IF n = 1 THEN s.ref # 0 ELSE @,
                                   !.firstError = IF n = 1 THEN e ELSE @]
             IN  IF s.ref = 0
                 THEN InterceptorCatch(s, tk1, PlainError("No refresh token available"),
                                       fault, throws)
                 ELSE <<s, [tk1 EXCEPT !.stack = Append(@, Frame("/auth/refresh", s)),
                                       !.refreshes = @ + 1]>>
        ELSE RequestFails(s, tk, e, fault, throws)

\* the response interceptor's error handler, for the request on top of the stack
ResponseError(s, tk, e, fault, throws) ==
    LET n == Len(tk.stack)
        f == tk.stack[n]
    IN  IF e.status = 401 /\ ~f.retry
        THEN LET tk1 == [tk EXCEPT !.stack[n].retry = TRUE,
                                   !.first401 = IF n = 1 THEN s.ref # 0 ELSE @,
                                   !.firstError = IF n = 1 THEN e ELSE @]
             IN  IF s.ref = 0
                 THEN \* refreshAccessToken() throws before it sends anything
                      InterceptorCatch(s, tk1, PlainError("No refresh token available"),
                                       fault, throws)
                 ELSE <<s, [tk1 EXCEPT !.stack = Append(@, Frame("/auth/refresh", s)),
                                       !.refreshes = @ + 1]>>
        ELSE RequestFails(s, tk, e, fault, throws)

\* a 2xx response for the request on top of the stack: the interceptor passes it
\* on, to the method or to refreshAccessToken()
ResponseOk(s, tk, data, fault, throws) ==
    LET n == Len(tk.stack)
    IN  IF n = 1
        THEN AfterAwait(s, [tk EXCEPT !.serverData = data], data, fault)
        ELSE IF data.success /\ data.tokens # 0
        THEN LET s1 == SaveTokens(s, data.tokens, data.tokens, fault)
                 g  == Resend(tk.stack[n - 1], s1)
                 refreshes == IF g.url = "/auth/refresh" THEN tk.refreshes + 1 ELSE tk.refreshes
             IN  <<s1, [tk EXCEPT !.stack = [Pop(@) EXCEPT ![n - 1] = g],
                                  !.granted = data.tokens,
                                  !.refreshes = refreshes,
                                  !.replays = IF n = 2 THEN @ + 1 ELSE @,
                                  !.replayAuth = IF n = 2 THEN g.auth ELSE @,
                                  !.replaySnap = IF n = 2 THEN Snap(s1) ELSE @,
                                  !.replayRefreshes = IF n = 2 THEN refreshes ELSE @]>>
        ELSE \* throw new Error('Failed to refresh token'), inside the try
             RequestFails(s, tk, PlainError("Failed to refresh token"), fault, throws)

\* GameUI.init() once its `await apiService.getCurrentUser()` has settled
GameUIAfterAuthCheck(s, tk) ==
    IF tk.state = "resolved" /\ tk.value.success
    THEN [s EXCEPT !.uiAuth = TRUE, !.uiUser = tk.value.user, !.uiView = "game"]
    ELSE [s EXCEPT !.uiView = "welcome"]

(***************************************************************************)
(* ApiService: the steps.                                                  *)
(***************************************************************************)
Api ==
    [acc |-> accessToken, ref |-> refreshToken, sAcc |-> storeAccess, sRef |-> storeRefresh,
     uiAuth |-> uiAuthenticated, uiUser |-> uiCurrentUser, uiView |-> uiView,
     br |-> Bridge]

ApiStore(s) ==
    /\ accessToken' = s.acc
    /\ refreshToken' = s.ref
    /\ storeAccess' = s.sAcc
    /\ storeRefresh' = s.sRef
    /\ uiAuthenticated' = s.uiAuth
    /\ uiCurrentUser' = s.uiUser
    /\ uiView' = s.uiView
    /\ Store(s.br)
    /\ lastDispatch' = NoDispatch
    /\ UNCHANGED <<unityInstance, isReady, hostAvailable, commSetup, instantiations,
                   onCount, storeFaulty, uiPresent, uiManager, uiNotifications>>

StoreFaults == IF storeFaulty THEN {"none", "first", "second"} ELSE {"none"}
SendFaults == IF isReady /\ unityInstance = "inst" THEN BOOLEAN ELSE {FALSE}

\* the page calls login(), register(), getCurrentUser(), logout(), logoutAll() or
\* healthCheck(): the code up to the request
ApiCall(t, op) ==
    /\ tasks[t].state = "idle"
    /\ \A u \in 1..(t-1) : tasks[u].state # "idle"
    /\ \E fault \in StoreFaults :
         LET s  == Api
             tk == [tasks[t] EXCEPT !.op = op]
         IN  IF op \in {"logout", "logoutAll"} /\ ~IsAuthenticated(s)
             THEN LET s1 == ClearTokens(s, fault)
                  IN  /\ ApiStore(s1)
                      /\ tasks' = [tasks EXCEPT ![t] = Resolve(tk, s1, NoData)]
             ELSE /\ ApiStore(s)
                  /\ tasks' = [tasks EXCEPT ![t] = [tk EXCEPT !.state = "pending",
                                                              !.stack = <<Frame(UrlOf(op), s)>>]]
    /\ UNCHANGED <<nextPair, uiBridge, initPc>>

\* the server's answers: 2xx with success and what the url returns; 2xx without;
\* 401 and 500 with an error body; no response at all
Answers == {"ok", "okFalse", "s401", "s500", "network"}

IssuesTokens(url) == url \in {"/auth/login", "/auth/register", "/auth/refresh"}

\* the answer to the request a task has with the server arrives
Respond(t, answer, user) ==
    LET tk == tasks[t]
        n  == Len(tk.stack)
        f  == tk.stack[n]
        issues == answer = "ok" /\ IssuesTokens(f.url)
        data == [success |-> answer = "ok",
                 tokens  |-> IF issues THEN nextPair + 1 ELSE 0,
                 user    |-> IF answer = "ok" /\ f.url # "/health" THEN user ELSE "none"]
        e  == IF answer = "network" THEN NoResponse(f.url)
              ELSE HttpError(f.url, IF answer = "s401" THEN 401 ELSE 500)
        replay == n = 1 /\ f.sent > 1
        tk1 == IF n = 1 THEN [tk EXCEPT !.lastAnswer = answer] ELSE tk
        tk0 == IF replay THEN [tk1 EXCEPT !.replayAnswer = answer, !.replayData = data] ELSE tk1
    IN
    /\ tk.state = "pending"
    /\ issues => nextPair < MaxPairs
    /\ (answer = "s401" /\ ~f.retry /\ refreshToken # 0) => n < MaxDepth
    /\ \E fault \in StoreFaults, throws \in SendFaults :
         LET r == IF answer \in {"ok", "okFalse"}
                  THEN ResponseOk(Api, tk0, data, fault, throws)
                  ELSE ResponseError(Api, tk0, e, fault, throws)
             \* the call GameUI.init() awaits has settled: init() goes on, makes
             \* the bridge and calls its init(), which starts polling for the
             \* loader (no loader is in the page while ApiService is followed)
             goesOn == tk.by = "gameInit" /\ r[2].state # "pending"
             \* the apiService.logout() that GameUI.logout() awaits has settled
             loggedOut == tk.by = "gameLogout" /\ r[2].state # "pending"
         IN  /\ ApiStore(IF goesOn THEN GameUIAfterAuthCheck(r[1], r[2])
                          ELSE IF loggedOut THEN GameUILogoutFinally(r[1], throws)
                          ELSE r[1])
             /\ tasks' = [tasks EXCEPT ![t] = r[2]]
             /\ uiBridge' = (uiBridge \/ goesOn)
             /\ initPc' = IF goesOn THEN [initPc EXCEPT ![1] = "polling"] ELSE initPc
    /\ nextPair' = IF issues THEN nextPair + 1 ELSE nextPair

\* a login, social login or register timer of the welcome scene fires and
\* calls window.gameUI.onUserLogin(...); no call of ApiService is made
OnUserLogin(user) ==
    /\ uiPresent /\ uiView = "welcome"
    /\ sendCount < MaxSend
    /\ \E throws \in SendFaults : ApiStore(GameUIOnUserLogin(Api, user, throws))
    /\ UNCHANGED <<tasks, nextPair, uiBridge, initPc>>

\* the user logs out: GameUI.logout() up to the request of apiService.logout(),
\* or to its end when no access token is held and no request is made
GameLogout(t) ==
    /\ uiPresent /\ uiAuthenticated
    /\ tasks[t].state = "idle"
    /\ \A u \in 1..(t-1) : tasks[u].state # "idle"
    /\ \E fault \in StoreFaults, throws \in SendFaults :
         LET s  == Api
             tk == [tasks[t] EXCEPT !.op = "logout", !.by = "gameLogout"]
         IN  IF ~IsAuthenticated(s)
             THEN LET s1 == GameUILogout(s, fault, throws)
                  IN  /\ ApiStore(s1)
                      /\ tasks' = [tasks EXCEPT ![t] = Resolve(tk, s1, NoData)]
             ELSE /\ ApiStore(s)
                  /\ tasks' = [tasks EXCEPT ![t] = [tk EXCEPT !.state = "pending",
                                                              !.stack = <<Frame(UrlOf("logout"), s)>>]]
    /\ UNCHANGED <<nextPair, uiBridge, initPc>>

\* the state after `new ApiService()` (the constructor has run loadTokens())
\* and, where the page has a GameUI, after `window.gameUI = new GameUI()`:
\* GameUI.init() has shown the welcome scene and made the bridge when no token
\* is held, and is awaiting getCurrentUser() when one is
ApiInit ==
    /\ storeAccess \in {0, 1}
    /\ storeRefresh = storeAccess
    /\ nextPair = storeAccess
    /\ \E fault \in {"none"} :
         LET s == LoadTokens([acc |-> 0, ref |-> 0, sAcc |-> storeAccess, sRef |-> storeRefresh],
                             fault)
         IN  accessToken = s.acc /\ refreshToken = s.ref
    /\ uiPresent \in BOOLEAN
    \* localStorage that throws is followed on a page without a GameUI
    /\ storeFaulty \in {f \in BOOLEAN : f => ~uiPresent}
    /\ tasks = [t \in 1..MaxTasks |->
                 IF t = 1 /\ uiPresent /\ accessToken # 0
                 THEN [NewTask EXCEPT !.op = "me", !.by = "gameInit", !.state = "pending",
                                      !.stack = <<[url |-> "/auth/me", retry |-> FALSE,
                                                   auth |-> accessToken, body |-> 0,
                                                   sent |-> 1]>>]
                 ELSE NewTask]
    /\ uiBridge = (uiPresent /\ accessToken = 0)
    /\ uiAuthenticated = FALSE
    /\ uiCurrentUser = "none"
    /\ uiView = IF uiPresent /\ accessToken = 0 THEN "welcome" ELSE "initial"
    /\ uiManager = FALSE
    /\ uiNotifications = <<>>

ApiNext ==
    \/ \E t \in 1..MaxTasks, op \in Ops : ApiCall(t, op)
    \/ \E t \in 1..MaxTasks, a \in Answers, u \in Users : Respond(t, a, u)

BridgeInit ==
    /\ unityInstance = "null"
    /\ isReady = FALSE
    /\ eventListeners = <<>>
    /\ messageQueue = <<>>
    /\ hostAvailable = FALSE
    /\ commSetup = FALSE
    /\ initPc = [i \in 1..MaxInit |-> IF i = 1 /\ uiBridge THEN "polling" ELSE "none"]
    /\ hostLog = <<>>
    /\ instantiations = 0
    /\ sendCount = 0
    /\ onCount = 0
    /\ enqueued = <<>>
    /\ lastDispatch = NoDispatch
    /\ sendFailed = FALSE
    /\ offCalled = {}
    /\ registrations = [p \in SubEvents \X Handlers |-> 0]

(***************************************************************************)
(* The bridge as a message channel: init(), sendToUnity(), the drain, and  *)
(* callbacks that send while the host calls in.                            *)
(***************************************************************************)
MsgNext ==
    \/ \E i \in 1..MaxInit : InitCall(i)
    \/ \E i \in 1..MaxInit : Poll(i)
    \/ \E i \in 1..MaxInit : Timeout(i)
    \/ HostAppears
    \/ \E i \in 1..MaxInit : DrainStep(i)
    \/ \E m \in Methods : PageSend(m)
    \/ PageOn("PlayerStatsUpdated", "hSend")
    \/ Dispatch("onPlayerStatsUpdated", TRUE)

Init == ApiInit /\ BridgeInit

\* the bridge on a page that makes no call of ApiService
BridgeOnly == Init /\ storeAccess = 0 /\ ~uiPresent /\ ~storeFaulty

MsgSpec == BridgeOnly /\ [][MsgNext]_vars

\* the timers of the page fire: the 30 s timer of a pending waitForUnity() is
\* not postponed for ever
MsgFairSpec == MsgSpec /\ \A i \in 1..MaxInit : WF_vars(Timeout(i))

\* every operation of the bridge: the above and off()
LifeNext ==
    \/ MsgNext
    \/ PageOff("PlayerStatsUpdated", "hSend")

LifeSpec == BridgeOnly /\ [][LifeNext]_vars

(***************************************************************************)
(* The bridge as an event emitter: on(), off() and the inbound dispatch.   *)
(***************************************************************************)
EvtNext ==
    \/ HostAppears
    \/ InitCall(1)
    \/ \E e \in SubEvents, h \in Handlers : PageOn(e, h)
    \/ \E e \in SubEvents, h \in Handlers : PageOff(e, h)
    \/ \E ep \in CalledEntryPoints, v \in BOOLEAN : Dispatch(ep, v)

EvtSpec == BridgeOnly /\ [][EvtNext]_vars

(***************************************************************************)
(* The authentication client: calls of ApiService and the server's answers *)
(* on a page whose bridge is not initialised.                              *)
(***************************************************************************)
\* localStorage that works
ApiOnly == Init /\ ~storeFaulty

ApiSpec == ApiOnly /\ [][ApiNext]_vars

\* a page with a GameUI: the welcome scene's logins, the user's logout and the
\* answers to the requests of GameUI.init() and GameUI.logout()
UiNext ==
    \/ \E u \in Users : OnUserLogin(u)
    \/ \E t \in 1..MaxTasks : GameLogout(t)
    \/ \E t \in 1..MaxTasks, a \in Answers, u \in Users : Respond(t, a, u)

UiInit == Init /\ uiPresent

UiSpec == UiInit /\ [][UiNext]_vars

\* the bridge on a page with a GameUI and no stored token: init() number 1 is
\* the call GameUI.init() awaits
GameInit == Init /\ uiPresent /\ storeAccess = 0

GameSpec == GameInit /\ [][MsgNext]_vars

\* one call at a time where localStorage.setItem and removeItem can throw
FaultNext ==
    \/ \E op \in Ops : ApiCall(1, op)
    \/ \E a \in Answers, u \in Users : Respond(1, a, u)

FaultInit == Init /\ storeFaulty

FaultSpec == FaultInit /\ [][FaultNext]_vars

Spec == ApiSpec

(***************************************************************************)
(* Properties.                                                             *)
(***************************************************************************)
IsPrefix(s, t) == Len(s) <= Len(t) /\ SubSeq(t, 1, Len(s)) = s

\* the SendMessage calls the host received for messages that had been buffered
\* before the bridge was ready
DeliveredQueued == SelectSeq(hostLog, LAMBDA m : m \in Range(enqueued))

\* C1: the messages sendToUnity() buffered while the bridge was not ready reach
\* the host's SendMessage in the order they were buffered, none skipped and
\* none twice, and all of them once init() has set readiness and finished
\* its drain.
C1_QueuedDeliveredInOrder ==
    /\ IsPrefix(DeliveredQueued, enqueued)
    /\ (isReady /\ ~Draining) => DeliveredQueued = enqueued

C1_Witness ==
    /\ isReady /\ ~Draining /\ unityInstance = "inst"
    /\ Len(enqueued) >= 2
    /\ DeliveredQueued = enqueued

Settled(tk) == tk.state \in {"resolved", "rejected"}

\* C2: a request answered 401 while a refresh token is held causes exactly one
\* POST /auth/refresh on its behalf, however that refresh is answered.
C2_ExactlyOneRefresh ==
    \A t \in 1..MaxTasks : tasks[t].first401 => tasks[t].refreshes = 1

AllTokens(p) == [acc |-> p, ref |-> p, sAcc |-> p, sRef |-> p]

\* what the method makes of its request's outcome
ReturnsOutcome(tk) == tk.op \in {"login", "register", "me"}

AnswerError(tk, answer) ==
    IF answer = "network" THEN NoResponse(UrlOf(tk.op))
    ELSE HttpError(UrlOf(tk.op), IF answer = "s401" THEN 401 ELSE 500)

\* C3: after a 401 and a successful refresh the returned pair is stored (in
\* memory and in localStorage), the request is replayed once with the new
\* access token as its bearer token, and the caller gets the replay's outcome.
C3_ReplayWithNewToken ==
    \A t \in 1..MaxTasks :
      LET tk == tasks[t] IN
      tk.replays >= 1 =>
        /\ tk.replays = 1
        /\ tk.granted # 0
        /\ tk.replaySnap = AllTokens(tk.granted)
        /\ tk.replayAuth = tk.granted
        /\ (Settled(tk) /\ ReturnsOutcome(tk)) =>
             IF tk.replayAnswer \in {"ok", "okFalse"}
             THEN tk.state = "resolved" /\ tk.value = tk.replayData
             ELSE tk.state = "rejected"
                  /\ tk.error = HandleError(AnswerError(tk, tk.replayAnswer))

C3_Witness ==
    \E t \in 1..MaxTasks :
      /\ tasks[t].op = "me" /\ tasks[t].state = "resolved"
      /\ tasks[t].replays = 1 /\ tasks[t].replayAnswer = "ok"
      /\ tasks[t].replayAuth = tasks[t].granted /\ tasks[t].granted > 1
      /\ tasks[t].value.user = "bob"

\* C4: when a request got 401 and the refresh attempt failed, both tokens are
\* cleared, in memory and in localStorage, when the request's promise settles.
C4_RefreshFailureClears ==
    \A t \in 1..MaxTasks :
      (Settled(tasks[t]) /\ tasks[t].refreshFailed) => tasks[t].settleSnap = AllTokens(0)

C4_Witness ==
    \E t \in 1..MaxTasks :
      /\ tasks[t].state = "rejected" /\ tasks[t].refreshFailed
      /\ tasks[t].first401 /\ tasks[t].refreshes = 1
      /\ tasks[t].settleSnap = AllTokens(0)

\* C5: no request is sent more than twice (once, and one replay after a 401); a
\* replay answered 401 is rejected to the caller with no further refresh or
\* replay; this holds for each of the calls in progress together.
C5_AtMostOneReplay ==
    \A t \in 1..MaxTasks :
      LET tk == tasks[t] IN
      /\ tk.replays <= 1
      /\ \A k \in 1..Len(tk.stack) : tk.stack[k].sent <= 2
      /\ tk.replayAnswer = "s401" =>
           /\ Settled(tk)
           /\ tk.refreshes = tk.replayRefreshes
           /\ ReturnsOutcome(tk) =>
                tk.state = "rejected" /\ tk.error = HandleError(AnswerError(tk, "s401"))

C5_Witness ==
    /\ tasks[1].replays = 1 /\ tasks[1].replayAnswer = "s401" /\ tasks[1].state = "rejected"
    /\ tasks[2].replays = 1 /\ tasks[2].state = "pending"

\* C6: when logout() or logoutAll() has completed, it has resolved and the
\* tokens are cleared (isAuthenticated() is false), whatever the server did.
C6_LogoutClears ==
    \A t \in 1..MaxTasks :
      (tasks[t].op \in {"logout", "logoutAll"} /\ Settled(tasks[t])) =>
        /\ tasks[t].state = "resolved"
        /\ tasks[t].settleSnap = AllTokens(0)

C6_Witness ==
    \E t \in 1..MaxTasks :
      /\ tasks[t].op = "logout" /\ tasks[t].state = "resolved"
      /\ tasks[t].lastAnswer = "network"
      /\ tasks[t].settleSnap = AllTokens(0)

\* C7: when the server answers login() or register() with success and a token
\* pair, then once the call has resolved the session held, in memory and in
\* localStorage, is that pair, and the value resolved is the server's answer
\* (the same user).
C7_LoginStoresPair ==
    \A t \in 1..MaxTasks :
      LET tk == tasks[t] IN
      (tk.op \in {"login", "register"} /\ tk.state = "resolved"
         /\ tk.serverData.success /\ tk.serverData.tokens # 0) =>
        /\ tk.settleSnap = AllTokens(tk.serverData.tokens)
        /\ tk.value.user = tk.serverData.user
        /\ tk.value.tokens = tk.serverData.tokens

C7_Witness ==
    \E t \in 1..MaxTasks :
      /\ tasks[t].op = "login" /\ tasks[t].state = "resolved"
      /\ tasks[t].serverData.success /\ tasks[t].serverData.tokens = 2
      /\ tasks[t].value.user = "alice"
      /\ tasks[t].settleSnap = AllTokens(2)

\* C8: after construction and after every completed step of login, register,
\* refresh, logout and logoutAll, the access token and the refresh token are
\* both present or both absent, in memory and in localStorage.
C8_TokensTogether ==
    /\ (accessToken = 0) <=> (refreshToken = 0)
    /\ (storeAccess = 0) <=> (storeRefresh = 0)

C8_Witness ==
    /\ accessToken # 0 /\ refreshToken # 0
    /\ \E t \in 1..MaxTasks : tasks[t].op = "login" /\ tasks[t].state = "resolved"
    /\ \E t \in 1..MaxTasks : tasks[t].op = "logout" /\ tasks[t].state = "resolved"

C11_DispatchCallsSubscribed ==
    (lastDispatch.event # "none" /\ ~lastDispatch.parseFailed)
      => lastDispatch.invoked = lastDispatch.start

\* C12: a call of init() made while isReady is true does not call
\* UnityLoader.instantiate and hands no message to SendMessage.
C12_InitAgainIsIdle ==
    [][(isReady /\ \E i \in 1..MaxInit : initPc[i] = "none" /\ initPc'[i] # "none")
         => (instantiations' = instantiations /\ hostLog' = hostLog)]_vars

\* C14: when UnityLoader.instantiate has thrown during a call of init() that
\* was still pending, that call has rejected with the load error; "hung" is a
\* call whose instantiate threw in a poll run by the timer, and whose promise
\* is neither resolved nor rejected.
C14_LoadErrorRejects ==
    \A i \in 1..MaxInit : initPc[i] # "hung"

\* C20: the host receives the messages in the order of the sendToUnity()
\* calls that made them (n numbers the calls), none of them twice.
C20_HostOrderIsSendOrder ==
    \A i, j \in 1..Len(hostLog) : i < j => hostLog[i].n < hostLog[j].n

\* C13: isReady starts false, becomes true only in a step in which a call of
\* init() has found the host, instantiate has returned and window.UnityToHTML
\* is assigned, and once true stays true in every step of the bridge.
C13_ReadinessMonotonic ==
    /\ ~isReady
    /\ [][/\ isReady => isReady'
          /\ (~isReady /\ isReady') =>
               /\ hostAvailable /\ commSetup'
               /\ instantiations' = instantiations + 1
               /\ \E i \in 1..MaxInit : /\ initPc[i] \in {"none", "polling"}
                                        /\ initPc'[i] \in {"draining", "resolved"}]_vars

C13_Witness ==
    /\ isReady
    /\ initPc[1] = "resolved" /\ initPc[2] = "resolved"
    /\ sendCount > 0 /\ hostLog # <<>>
    /\ "PlayerStatsUpdated" \in DOMAIN eventListeners
    /\ <<"PlayerStatsUpdated", "hSend">> \in offCalled

\* C15: a call of init() that is polling for the host rejects with the
\* timeout error unless the host appears; when it does so the bridge is not
\* ready, and the step sends nothing and leaves the buffer as it was.
C15_TimeoutRejects ==
    /\ \A i \in 1..MaxInit :
         (initPc[i] = "polling") ~> (initPc[i] = "timedOut" \/ hostAvailable)
    /\ [][\A i \in 1..MaxInit :
            (initPc[i] = "polling" /\ initPc'[i] = "timedOut" /\ ~hostAvailable) =>
              (~isReady' /\ messageQueue' = messageQueue /\ hostLog' = hostLog)]_vars

C15_Witness ==
    /\ initPc[1] = "timedOut" /\ ~hostAvailable /\ ~isReady
    /\ Len(messageQueue) = 2 /\ hostLog = <<>>

\* C16: in every state sendToUnity() returns without throwing; with the
\* bridge ready and an instance it calls SendMessage once, catches what that
\* throws, and leaves the buffer and the subscriptions as they were; with the
\* bridge not ready it appends the message to the end of the buffer and calls
\* nothing.
C16_SendNeverThrows ==
    \A m \in Methods, throws \in BOOLEAN :
      LET b   == SendToUnity(Bridge, isReady, unityInstance, m, throws)
          msg == Message(m, sendCount + 1)
      IN  /\ ~b.thrown
          /\ b.ls = eventListeners
          /\ (isReady /\ unityInstance = "inst") =>
               (b.q = messageQueue /\ b.log = Append(hostLog, msg) /\ b.failed = throws)
          /\ ~isReady =>
               (b.q = Append(messageQueue, msg) /\ b.log = hostLog /\ ~b.failed)

C16_Witness ==
    /\ isReady /\ unityInstance = "inst" /\ ~Draining
    /\ sendFailed /\ lastDispatch.event = "none"
    /\ hostLog # <<>> /\ hostLog[Len(hostLog)].n = sendCount
    /\ messageQueue = <<>> /\ eventListeners # <<>>

\* C17: when a request of login(), register() or getCurrentUser() was
\* answered 401, a POST /auth/refresh was sent for it and the refresh attempt
\* failed, the call rejects with the error of the 401 answer to its own
\* request.
C17_RejectsWithOriginalError ==
    \A t \in 1..MaxTasks :
      LET tk == tasks[t] IN
      (Settled(tk) /\ ReturnsOutcome(tk) /\ tk.first401 /\ tk.refreshes >= 1 /\ tk.refreshFailed)
        => (tk.state = "rejected" /\ tk.error = HandleError(tk.firstError))

\* C19: a login() that rejects does so with the error made of the server's
\* last answer to POST /auth/login: the server's message when it answered with
\* an error status, the network error when there was no answer.
C19_LoginErrorIsTheServers ==
    \A t \in 1..MaxTasks :
      LET tk == tasks[t] IN
      (tk.op = "login" /\ tk.state = "rejected")
        => tk.error = HandleError(AnswerError(tk, tk.lastAnswer))

\* C18: in the step in which a refresh attempt made for a 401 fails, on a
\* page with a GameUI, GameUI.logout() runs: GameUI is then not authenticated,
\* has no current user and shows the welcome scene.
C18_RefreshFailureLogsOutUI ==
    [][\A t \in 1..MaxTasks :
         (uiPresent /\ ~tasks[t].refreshFailed /\ tasks'[t].refreshFailed) =>
           (~uiAuthenticated' /\ uiCurrentUser' = "none" /\ uiView' = "welcome")]_vars

C18_Witness ==
    /\ uiPresent /\ uiBridge
    /\ tasks[1].by = "gameInit" /\ tasks[1].state = "resolved" /\ tasks[1].value.success
    /\ tasks[2].refreshFailed /\ tasks[2].refreshes = 1 /\ tasks[2].state = "rejected"
    /\ ~uiAuthenticated /\ uiCurrentUser = "none" /\ uiView = "welcome"
    /\ messageQueue # <<>> /\ messageQueue[Len(messageQueue)].method = "UserLogout"

\* C21: once a call of init() has rejected with the timeout error, and no
\* other call of init() is made, UnityLoader.instantiate is not called and
\* isReady stays false, whether or not the host appears.
C21_NoInstantiateAfterTimeout ==
    [][(initPc[1] = "timedOut" /\ initPc[2] = "none" /\ initPc'[2] = "none")
         => (instantiations' = instantiations /\ ~isReady')]_vars

\* C24: SendMessage is called only in steps that end with isReady true and an
\* instance held, so the host has received nothing while isReady is false.
C24_SendMessageOnlyWhenReady ==
    /\ hostLog = <<>>
    /\ [][/\ hostLog' # hostLog => (isReady' /\ unityInstance' = "inst")
          /\ ~isReady' => hostLog' = <<>>]_vars

C24_Witness ==
    /\ isReady /\ unityInstance = "inst"
    /\ Len(hostLog) = 3
    /\ initPc[1] = "timedOutStopped" /\ initPc[2] = "resolved"
    /\ <<"PlayerStatsUpdated", "hSend">> \in offCalled

\* C25: each turn of the loop of processMessageQueue() leaves the buffer
\* shorter than it found it, so that the drain ends with the buffer empty
\* (during a drain the steps are the loop's turns and the host's calls into
\* the page, which set lastDispatch).
C25_DrainShortensBuffer ==
    [][(Draining /\ lastDispatch'.event = "none")
         => Len(messageQueue') < Len(messageQueue)]_vars

\* C26: in a dispatch of an event, every handler other than the one that
\* unsubscribes itself is called as many times as it was subscribed when the
\* dispatch began.
C26_OffDuringDispatchIsHarmless ==
    (lastDispatch.event # "none" /\ ~lastDispatch.parseFailed) =>
      \A h \in Handlers \ {"hOff"} :
        Count(lastDispatch.invoked, h) = Count(lastDispatch.start, h)

\* C27: in a dispatch of an event, each handler is called as many times as
\* on(event, handler) had been called when it began, less the off(event,
\* handler) calls that had found it registered.
C27_InvokedAsOftenAsRegistered ==
    (lastDispatch.event \in SubEvents /\ ~lastDispatch.parseFailed) =>
      \A h \in Handlers \ {"hOff"} :
        Count(lastDispatch.invoked, h) = lastDispatch.regStart[h]

\* C28: the stored pair is cleared only in a step in which logout() or
\* logoutAll() completes, or in which a refresh fails that was sent with the
\* refresh token of that very pair.
C28_OnlyOwnRefreshFailureClears ==
    [][(refreshToken # 0 /\ refreshToken' = 0) =>
         \E t \in 1..MaxTasks :
           /\ tasks[t].state = "pending" /\ tasks'[t] # tasks[t]
           /\ \/ tasks[t].op \in {"logout", "logoutAll"} /\ tasks'[t].state = "resolved"
              \/ /\ Top(tasks[t].stack).url = "/auth/refresh"
                 /\ Top(tasks[t].stack).body = refreshToken]_vars

\* C30: the token pair in memory is the pair in localStorage after every
\* step of login, register, refresh and logout, also where a localStorage
\* call of saveTokens() or clearTokens() throws.
C30_MemoryEqualsStore ==
    accessToken = storeAccess /\ refreshToken = storeRefresh

\* C23: in every step in which UserLogin is handed to the bridge, ApiService
\* holds a token pair the backend issued.
C23_UserLoginOnlyWithTokens ==
    [][(\E i \in 1..Len(messageQueue') :
          messageQueue'[i].method = "UserLogin" /\ messageQueue'[i].n > sendCount)
         => (accessToken' # 0 /\ refreshToken' # 0)]_vars

\* C29: the step in which a GameUI.logout() the user started finishes hands
\* exactly one message to the bridge, a UserLogout.
C29_OneUserLogoutPerLogout ==
    [][\A t \in 1..MaxTasks :
         (tasks'[t].by = "gameLogout" /\ tasks[t].state # "resolved"
            /\ tasks'[t].state = "resolved")
           => sendCount' = sendCount + 1]_vars

\* C22: in the step in which the init() of the bridge that GameUI.init()
\* awaits rejects, the message of GameUI.init()'s catch is displayed.
C22_InitFailureIsDisplayed ==
    [][(uiBridge /\ initPc[1] = "polling" /\ initPc'[1] \in {"timedOut", "loadError"})
         => (Len(uiNotifications') = Len(uiNotifications) + 1
             /\ uiNotifications'[Len(uiNotifications')] = InitFailedMessage)]_vars

====
